---- MODULE Spec2Model ----
(***************************************************************************)
(* Viewport state machine of BuildingPlanViewer (src/draw.py).             *)
(*                                                                         *)
(* The viewer keeps the visible window in the matplotlib axes (xlim, ylim) *)
(* and the reset target in x_limits / y_limits.  Python floats are         *)
(* modelled as exact rationals <<n, d>> (d > 0, lowest terms), so every    *)
(* equality below is an equality of real numbers: it is what the float     *)
(* computation yields up to rounding.                                      *)
(***************************************************************************)
EXTENDS Integers, Sequences, FiniteSets, TLC

VARIABLES pc, layers, fitted, initial_center, initial_zoom,
          xlim, ylim, x_limits, y_limits, draw_requests, hist, steps

vars == <<pc, layers, fitted, initial_center, initial_zoom,
          xlim, ylim, x_limits, y_limits, draw_requests, hist, steps>>

(***************************************************************************)
(* Bounds of the model.                                                    *)
(***************************************************************************)
\* number of input events / calls explored after construction
MaxSteps == 3

(***************************************************************************)
(* Rational arithmetic standing for Python float arithmetic.               *)
(***************************************************************************)
Abs(n) == IF n < 0 THEN -n ELSE n

RECURSIVE GCD(_, _)
GCD(a, b) == IF b = 0 THEN a ELSE GCD(b, a % b)

\* the fraction n/d (d # 0) in lowest terms with a positive denominator
Norm(n, d) ==
    LET g == GCD(Abs(n), Abs(d))
        s == IF d < 0 THEN -1 ELSE 1
    IN  <<s * (n \div g), s * (d \div g)>>

R(n, d) == Norm(n, d)
Num(n) == <<n, 1>>

Add(a, b) ==
    LET g == GCD(a[2], b[2])
    IN  Norm(a[1] * (b[2] \div g) + b[1] * (a[2] \div g), (a[2] \div g) * b[2])

Neg(a) == <<-a[1], a[2]>>
Sub(a, b) == Add(a, Neg(b))

Mul(a, b) ==
    LET g1 == GCD(Abs(a[1]), b[2])
        g2 == GCD(Abs(b[1]), a[2])
    IN  Norm((a[1] \div g1) * (b[1] \div g2), (a[2] \div g2) * (b[2] \div g1))

\* a / b for b # 0 (Python raises ZeroDivisionError for b = 0)
Div(a, b) == Mul(a, Norm(b[2], b[1]))

Less(a, b) ==
    LET g == GCD(a[2], b[2])
    IN  a[1] * (b[2] \div g) < b[1] * (a[2] \div g)

Leq(a, b) == a = b \/ Less(a, b)
RAbs(a) == <<Abs(a[1]), a[2]>>

Zero == Num(0)
One == Num(1)
Two == Num(2)

\* Python's None
None == <<>>

(***************************************************************************)
(* The axes' view limits.                                                  *)
(***************************************************************************)
\* ax.set_xlim([left, right]) / ax.set_ylim([bottom, top]): the pair is
\* stored as given (an inverted pair stays inverted); identical limits make
\* the transform singular and are expanded by 5% (by 0.05 around zero).
set_lim(lim) ==
    IF lim[1] # lim[2] THEN <<lim[1], lim[2]>>
    ELSE IF lim[1] = Zero THEN <<R(-1, 20), R(1, 20)>>
    ELSE <<Sub(lim[1], Mul(R(1, 20), RAbs(lim[1]))),
           Add(lim[2], Mul(R(1, 20), RAbs(lim[2])))>>

Width(lim) == Sub(lim[2], lim[1])
Center(lim) == Div(Add(lim[1], lim[2]), Two)

\* ViewBounds has positive extent: x_max > x_min and y_max > y_min
PositiveExtent(xl, yl) == Less(xl[1], xl[2]) /\ Less(yl[1], yl[2])

(***************************************************************************)
(* Inputs.                                                                 *)
(***************************************************************************)
\* what ax.get_xlim() / ax.get_ylim() return once the patches are added:
\* the autoscaled limits around the drawn geometry, always of positive extent
FittedViews ==
    { [x |-> <<Num(10000), Num(50000)>>, y |-> <<Num(0), Num(30000)>>],
      [x |-> <<Num(0), Num(100)>>, y |-> <<Num(0), Num(100)>>] }

\* A layer is abstracted to None, an array of no rows, or an array of rows.
\* The fields before any data is loaded:
NoLayers ==
    [wall_data |-> "None", slab1_data |-> "None",
     stair_data |-> "None", sensor_data |-> "None"]
\* a building with walls, slabs and sensors; read_excel_data never returns stairs
TypicalLayers ==
    [wall_data |-> "rows", slab1_data |-> "rows",
     stair_data |-> "None", sensor_data |-> "rows"]

\* (initial_center, initial_zoom): draw_building_plan's defaults, main()'s
\* arguments, and main()'s centre at the constructor's default zoom
ViewArgs ==
    { <<None, R(1, 2)>>,
      <<<<Num(33950), Num(20000)>>, R(1, 2)>>,
      <<<<Num(33950), Num(20000)>>, One>> }
\* what a caller of the constructor may pass besides
AnyViewArgs ==
    ViewArgs \cup { <<<<Num(33950), Num(20000)>>, Zero>>,
                    <<<<Num(33950), Num(20000)>>, Num(-1)>> }

\* cursor positions in data coordinates
CursorPositions == { <<Num(20), Num(20)>>, <<Num(33950), Num(20000)>> }

\* scroll events: inside the axes at a cursor position, inside the axes
\* without data coordinates, and outside the axes
ScrollEvents ==
    { [inaxes |-> TRUE, xdata |-> p[1], ydata |-> p[2], button |-> b] :
          p \in CursorPositions, b \in {"up", "down"} }
    \cup { [inaxes |-> TRUE, xdata |-> None, ydata |-> None, button |-> "up"],
           [inaxes |-> FALSE, xdata |-> None, ydata |-> None, button |-> "down"] }

Keys == { "r", "R", "+", "=", "-", "up", "down", "left", "right", "a" }

\* arguments of direct calls of zoom(scale_factor) and pan(dx, dy)
ZoomFactors == { R(1, 2), Two, Zero, Num(-1) }
PanSteps == { <<R(1, 10), Zero>>, <<Num(-2), R(3, 2)>>, <<Two, R(-3, 2)>> }

(***************************************************************************)
(* Construction: __init__ -> setup_plot -> set_initial_view.               *)
(***************************************************************************)
\* faulty variant: the reset target is left at the limits found on entry
set_initial_view_keeps_home(cur_xlim, cur_ylim, center, zoom_level) ==
    LET new_width == Mul(Sub(cur_xlim[2], cur_xlim[1]), zoom_level)
        new_height == Mul(Sub(cur_ylim[2], cur_ylim[1]), zoom_level)
        xl == set_lim(<<Sub(center[1], Div(new_width, Two)),
                        Add(center[1], Div(new_width, Two))>>)
        yl == set_lim(<<Sub(center[2], Div(new_height, Two)),
                        Add(center[2], Div(new_height, Two))>>)
    IN  [xlim |-> xl, ylim |-> yl, x_limits |-> cur_xlim, y_limits |-> cur_ylim]

\* set_initial_view(center, zoom_level), given the limits the axes hold when
\* it is called: the limits it installs and the reset target it records
set_initial_view(cur_xlim, cur_ylim, center, zoom_level) ==
    LET x_center == center[1]
        y_center == center[2]
        current_width == Sub(cur_xlim[2], cur_xlim[1])
        current_height == Sub(cur_ylim[2], cur_ylim[1])
        new_width == Mul(current_width, zoom_level)
        new_height == Mul(current_height, zoom_level)
        xl == set_lim(<<Sub(x_center, Div(new_width, Two)),
                        Add(x_center, Div(new_width, Two))>>)
        yl == set_lim(<<Sub(y_center, Div(new_height, Two)),
                        Add(y_center, Div(new_height, Two))>>)
    IN  [xlim |-> xl, ylim |-> yl, x_limits |-> xl, y_limits |-> yl]

\* the end of setup_plot: save the fitted limits, then apply the override
setup_plot(fit, center, zoom_level) ==
    IF center # None
    THEN set_initial_view(fit.x, fit.y, center, zoom_level)
    ELSE [xlim |-> fit.x, ylim |-> fit.y, x_limits |-> fit.x, y_limits |-> fit.y]

\* BuildingPlanViewer(wall_data, slab1_data, stair_data, sensor_data,
\*                    initial_center, initial_zoom), where fit is what the axes'
\* limits are once the layers are drawn
BuildingPlanViewer(data, fit, center, zoom_level) ==
    /\ pc = "new"
    /\ layers' = data
    /\ LET v == setup_plot(fit, center, zoom_level)
       IN  /\ xlim' = v.xlim
           /\ ylim' = v.ylim
           /\ x_limits' = v.x_limits
           /\ y_limits' = v.y_limits
    /\ fitted' = fit
    /\ initial_center' = center
    /\ initial_zoom' = zoom_level
    /\ pc' = "shown"
    /\ UNCHANGED <<draw_requests, hist, steps>>

(***************************************************************************)
(* Navigation operations.                                                  *)
(***************************************************************************)
\* self.fig.canvas.draw_idle(): one more redraw requested of the canvas
draw_idle == draw_requests' = draw_requests + 1

base_scale == R(11, 10)

\* faulty variant: 1 - base_scale where 1 / base_scale is meant
scale_factor_of_minus(button) ==
    IF button = "up" THEN Sub(One, base_scale)
    ELSE IF button = "down" THEN base_scale
    ELSE One

\* the wheel's scale factor
scale_factor_of(button) ==
    IF button = "up" THEN Div(One, base_scale)
    ELSE IF button = "down" THEN base_scale
    ELSE One

\* faulty variant: the fractions are measured from the near edge
scroll_limits_near_edge(cur_xlim, cur_ylim, xdata, ydata, scale_factor) ==
    LET new_width == Mul(Sub(cur_xlim[2], cur_xlim[1]), scale_factor)
        new_height == Mul(Sub(cur_ylim[2], cur_ylim[1]), scale_factor)
        relx == Div(Sub(xdata, cur_xlim[1]), Sub(cur_xlim[2], cur_xlim[1]))
        rely == Div(Sub(ydata, cur_ylim[1]), Sub(cur_ylim[2], cur_ylim[1]))
    IN  [xlim |-> set_lim(<<Sub(xdata, Mul(new_width, Sub(One, relx))),
                            Add(xdata, Mul(new_width, relx))>>),
         ylim |-> set_lim(<<Sub(ydata, Mul(new_height, Sub(One, rely))),
                            Add(ydata, Mul(new_height, rely))>>)]

\* the limits on_scroll computes from the current ones, the cursor position
\* and the scale factor
scroll_limits(cur_xlim, cur_ylim, xdata, ydata, scale_factor) ==
    LET new_width == Mul(Sub(cur_xlim[2], cur_xlim[1]), scale_factor)
        new_height == Mul(Sub(cur_ylim[2], cur_ylim[1]), scale_factor)
        relx == Div(Sub(cur_xlim[2], xdata), Sub(cur_xlim[2], cur_xlim[1]))
        rely == Div(Sub(cur_ylim[2], ydata), Sub(cur_ylim[2], cur_ylim[1]))
    IN  [xlim |-> set_lim(<<Sub(xdata, Mul(new_width, Sub(One, relx))),
                            Add(xdata, Mul(new_width, relx))>>),
         ylim |-> set_lim(<<Sub(ydata, Mul(new_height, Sub(One, rely))),
                            Add(ydata, Mul(new_height, rely))>>)]

on_scroll(event) ==
    IF ~event.inaxes
    THEN UNCHANGED <<xlim, ylim, x_limits, y_limits, draw_requests>>
    ELSE IF event.xdata = None \/ event.ydata = None
    THEN UNCHANGED <<xlim, ylim, x_limits, y_limits, draw_requests>>
    ELSE LET scale_factor == scale_factor_of(event.button)
             v == scroll_limits(xlim, ylim, event.xdata, event.ydata, scale_factor)
         IN  /\ xlim' = v.xlim
             /\ ylim' = v.ylim
             /\ UNCHANGED <<x_limits, y_limits>>
             /\ draw_idle

\* faulty variant: the new height is taken from the width
zoom_height_from_width(scale_factor) ==
    LET x_center == Div(Add(xlim[1], xlim[2]), Two)
        y_center == Div(Add(ylim[1], ylim[2]), Two)
        new_width == Mul(Sub(xlim[2], xlim[1]), scale_factor)
        new_height == Mul(Sub(xlim[2], xlim[1]), scale_factor)
    IN  /\ xlim' = set_lim(<<Sub(x_center, Div(new_width, Two)),
                             Add(x_center, Div(new_width, Two))>>)
        /\ ylim' = set_lim(<<Sub(y_center, Div(new_height, Two)),
                             Add(y_center, Div(new_height, Two))>>)
        /\ UNCHANGED <<x_limits, y_limits>>
        /\ draw_idle

\* faulty variant: the centre is the sum of the limits, not their mean
zoom_center_sum(scale_factor) ==
    LET x_center == Add(xlim[1], xlim[2])
        y_center == Add(ylim[1], ylim[2])
        new_width == Mul(Sub(xlim[2], xlim[1]), scale_factor)
        new_height == Mul(Sub(ylim[2], ylim[1]), scale_factor)
    IN  /\ xlim' = set_lim(<<Sub(x_center, Div(new_width, Two)),
                             Add(x_center, Div(new_width, Two))>>)
        /\ ylim' = set_lim(<<Sub(y_center, Div(new_height, Two)),
                             Add(y_center, Div(new_height, Two))>>)
        /\ UNCHANGED <<x_limits, y_limits>>
        /\ draw_idle

zoom(scale_factor) ==
    LET cur_xlim == xlim
        cur_ylim == ylim
        x_center == Div(Add(cur_xlim[1], cur_xlim[2]), Two)
        y_center == Div(Add(cur_ylim[1], cur_ylim[2]), Two)
        new_width == Mul(Sub(cur_xlim[2], cur_xlim[1]), scale_factor)
        new_height == Mul(Sub(cur_ylim[2], cur_ylim[1]), scale_factor)
    IN  /\ xlim' = set_lim(<<Sub(x_center, Div(new_width, Two)),
                             Add(x_center, Div(new_width, Two))>>)
        /\ ylim' = set_lim(<<Sub(y_center, Div(new_height, Two)),
                             Add(y_center, Div(new_height, Two))>>)
        /\ UNCHANGED <<x_limits, y_limits>>
        /\ draw_idle

\* faulty variant: the vertical shift is scaled by the width
pan_dy_by_width(dx, dy) ==
    LET width == Sub(xlim[2], xlim[1])
    IN  /\ xlim' = set_lim(<<Add(xlim[1], Mul(dx, width)), Add(xlim[2], Mul(dx, width))>>)
        /\ ylim' = set_lim(<<Add(ylim[1], Mul(dy, width)), Add(ylim[2], Mul(dy, width))>>)
        /\ UNCHANGED <<x_limits, y_limits>>
        /\ draw_idle

\* faulty variant: the panned limits are also saved as the reset target
pan_saves_home(dx, dy) ==
    LET width == Sub(xlim[2], xlim[1])
        height == Sub(ylim[2], ylim[1])
    IN  /\ xlim' = set_lim(<<Add(xlim[1], Mul(dx, width)), Add(xlim[2], Mul(dx, width))>>)
        /\ ylim' = set_lim(<<Add(ylim[1], Mul(dy, height)), Add(ylim[2], Mul(dy, height))>>)
        /\ x_limits' = xlim'
        /\ y_limits' = ylim'
        /\ draw_idle

pan(dx, dy) ==
    LET cur_xlim == xlim
        cur_ylim == ylim
        width == Sub(cur_xlim[2], cur_xlim[1])
        height == Sub(cur_ylim[2], cur_ylim[1])
    IN  /\ xlim' = set_lim(<<Add(cur_xlim[1], Mul(dx, width)),
                             Add(cur_xlim[2], Mul(dx, width))>>)
        /\ ylim' = set_lim(<<Add(cur_ylim[1], Mul(dy, height)),
                             Add(cur_ylim[2], Mul(dy, height))>>)
        /\ UNCHANGED <<x_limits, y_limits>>
        /\ draw_idle

\* faulty variant: both axes are reset from x_limits
reset_view_from_x ==
    /\ xlim' = set_lim(x_limits)
    /\ ylim' = set_lim(x_limits)
    /\ UNCHANGED <<x_limits, y_limits>>
    /\ draw_idle

\* faulty variant: the limits are restored but no redraw is requested
reset_view_no_draw ==
    /\ xlim' = set_lim(x_limits)
    /\ ylim' = set_lim(y_limits)
    /\ UNCHANGED <<x_limits, y_limits, draw_requests>>

reset_view ==
    /\ xlim' = set_lim(x_limits)
    /\ ylim' = set_lim(y_limits)
    /\ UNCHANGED <<x_limits, y_limits>>
    /\ draw_idle

\* faulty variant: the left arrow pans the same way as the right arrow
on_key_press_left_sign(key) ==
    IF key = "r" \/ key = "R" THEN reset_view
    ELSE IF key = "+" \/ key = "=" THEN zoom(R(12, 10))
    ELSE IF key = "-" THEN zoom(R(8, 10))
    ELSE IF key = "up" THEN pan(Zero, R(1, 10))
    ELSE IF key = "down" THEN pan(Zero, R(-1, 10))
    ELSE IF key = "left" THEN pan(R(1, 10), Zero)
    ELSE IF key = "right" THEN pan(R(1, 10), Zero)
    ELSE UNCHANGED <<xlim, ylim, x_limits, y_limits, draw_requests>>

\* faulty variant: a key without a binding resets the view
on_key_press_else_reset(key) ==
    IF key = "r" \/ key = "R" THEN reset_view
    ELSE IF key = "+" \/ key = "=" THEN zoom(R(12, 10))
    ELSE IF key = "-" THEN zoom(R(8, 10))
    ELSE IF key = "up" THEN pan(Zero, R(1, 10))
    ELSE IF key = "down" THEN pan(Zero, R(-1, 10))
    ELSE IF key = "left" THEN pan(R(-1, 10), Zero)
    ELSE IF key = "right" THEN pan(R(1, 10), Zero)
    ELSE reset_view

on_key_press(key) ==
    IF key = "r" \/ key = "R" THEN reset_view
    ELSE IF key = "+" \/ key = "=" THEN zoom(R(12, 10))
    ELSE IF key = "-" THEN zoom(R(8, 10))
    ELSE IF key = "up" THEN pan(Zero, R(1, 10))
    ELSE IF key = "down" THEN pan(Zero, R(-1, 10))
    ELSE IF key = "left" THEN pan(R(-1, 10), Zero)
    ELSE IF key = "right" THEN pan(R(1, 10), Zero)
    ELSE UNCHANGED <<xlim, ylim, x_limits, y_limits, draw_requests>>

(***************************************************************************)
(* The event loop.  hist records the last two inputs delivered, newest     *)
(* first, each with the limits that held before it and the exception it    *)
(* raised (no handler has a raise statement, and no division fails since   *)
(* the axes never hold identical limits).                                  *)
(***************************************************************************)
Entry(ev, key, args) ==
    [ev |-> ev, key |-> key, args |-> args, raised |-> "none",
     draw_requests |-> draw_requests,
     xlim |-> xlim, ylim |-> ylim, x_limits |-> x_limits, y_limits |-> y_limits]

Deliver(ev, key, args) ==
    /\ hist' = <<Entry(ev, key, args)>> \o SubSeq(hist, 1, IF Len(hist) = 0 THEN 0 ELSE 1)
    /\ steps' = steps + 1
    /\ UNCHANGED <<pc, layers, fitted, initial_center, initial_zoom>>

Ready == pc = "shown" /\ steps < MaxSteps

Init ==
    /\ pc = "new"
    /\ layers = NoLayers
    /\ fitted = None
    /\ initial_center = None
    /\ initial_zoom = One
    /\ xlim = <<Zero, One>>
    /\ ylim = <<Zero, One>>
    /\ x_limits = None
    /\ y_limits = None
    /\ draw_requests = 0
    /\ hist = <<>>
    /\ steps = 0

\* the viewer as main() and draw_building_plan() build it
Construct ==
    \E fit \in FittedViews, a \in ViewArgs :
        BuildingPlanViewer(TypicalLayers, fit, a[1], a[2])

\* the viewer as any caller of the constructor may build it
ConstructAny ==
    \E fit \in FittedViews, a \in AnyViewArgs :
        BuildingPlanViewer(TypicalLayers, fit, a[1], a[2])

ScrollEvent ==
    \E event \in ScrollEvents :
        /\ Ready
        /\ on_scroll(event)
        /\ Deliver("scroll", event.button, <<event.inaxes, event.xdata, event.ydata>>)

KeyPressEvent ==
    \E key \in Keys :
        /\ Ready
        /\ on_key_press(key)
        /\ Deliver("key_press", key, <<>>)

CallZoom ==
    \E scale_factor \in ZoomFactors :
        /\ Ready
        /\ zoom(scale_factor)
        /\ Deliver("zoom", "", <<scale_factor>>)

CallPan ==
    \E d \in PanSteps :
        /\ Ready
        /\ pan(d[1], d[2])
        /\ Deliver("pan", "", <<d[1], d[2]>>)

CallReset ==
    /\ Ready
    /\ reset_view
    /\ Deliver("reset_view", "", <<>>)

\* the running program: the two callbacks setup_events connects
Next == Construct \/ ScrollEvent \/ KeyPressEvent

Spec == Init /\ [][Next]_vars

\* the class as a library: any constructor argument, any method call
NextApi == ConstructAny \/ ScrollEvent \/ CallZoom \/ CallPan \/ CallReset

SpecApi == Init /\ [][NextApi]_vars

\* what read_excel_data and read_sensor_data may hand to main(): the building
\* file unreadable (None, None, None) or read with empty or filled sheets,
\* never with stairs; the sensor file unreadable, empty or filled
ReadResults ==
    { [wall_data |-> b[1], slab1_data |-> b[2], stair_data |-> "None", sensor_data |-> sn] :
          b \in { <<"None", "None">>, <<"empty", "empty">>,
                  <<"rows", "empty">>, <<"rows", "rows">> },
          sn \in {"None", "empty", "rows"} }

\* setup_plot draws a layer only if it has rows
Drawn(data) ==
    \/ data.slab1_data = "rows"
    \/ data.wall_data = "rows"
    \/ data.stair_data = "rows"
    \/ data.sensor_data = "rows"

\* the limits ax.get_xlim() / ax.get_ylim() return after the drawing: those of
\* an empty axes, (0, 1), when nothing was drawn
DrawnViews(data) ==
    IF Drawn(data) THEN FittedViews
    ELSE { [x |-> <<Zero, One>>, y |-> <<Zero, One>>] }

\* main(), given what the two files yielded
main(data, fit) ==
    IF data.wall_data # "None" /\ data.slab1_data # "None"
    THEN BuildingPlanViewer(data, fit, <<Num(33950), Num(20000)>>, R(1, 2))
    ELSE /\ pc = "new"
         /\ pc' = "exit"
         /\ layers' = data
         /\ UNCHANGED <<fitted, initial_center, initial_zoom, xlim, ylim,
                        x_limits, y_limits, draw_requests, hist, steps>>

Main == \E data \in ReadResults : \E fit \in DrawnViews(data) : main(data, fit)

\* mouse drags, as fractions of the width and height of the view
DragDeltas == { <<R(1, 4), R(-1, 4)>> }

\* an event for which setup_events connects no callback
no_callback == UNCHANGED <<xlim, ylim, x_limits, y_limits, draw_requests>>

\* a drag reaches the canvas as button press, motion and button release
DragEvent ==
    \E d \in DragDeltas :
        /\ Ready
        /\ no_callback
        /\ Deliver("drag", "", d)

\* main() with any outcome of reading the files, then keyboard and drag input
NextMain == Main \/ KeyPressEvent \/ DragEvent

SpecMain == Init /\ [][NextMain]_vars

\* keyboard input together with direct calls of pan
NextPan == Construct \/ KeyPressEvent \/ CallPan

SpecPan == Init /\ [][NextPan]_vars

(***************************************************************************)
(* Properties.                                                             *)
(***************************************************************************)
Shown == pc = "shown"
Last == hist[1]
Before == hist[2]
IsResetKey(e) == e.ev = "key_press" /\ e.key \in {"r", "R"}
\* a scroll event that on_scroll does not ignore
IsZoomingScroll(e) == e.ev = "scroll" /\ e.args[1] /\ e.args[2] # None /\ e.args[3] # None
\* fractional position of a point measured from the far edge of the limits
Rel(lim, data) == Div(Sub(lim[2], data), Width(lim))

\* C1: from an initial view of positive extent, every view reached by scroll,
\* key-driven zoom, pan and reset events has x_max > x_min and y_max > y_min.
C1_PositiveExtent ==
    (Shown /\ PositiveExtent(x_limits, y_limits)) => PositiveExtent(xlim, ylim)

C1_Witness ==
    /\ Shown /\ Len(hist) = 2
    /\ Last.ev = "scroll" /\ Last.key = "up" /\ IsZoomingScroll(Last)
    /\ Before.ev = "key_press" /\ Before.key = "-"
    /\ PositiveExtent(xlim, ylim)
    /\ Less(Width(xlim), Width(Before.xlim))

\* the factor of a wheel step, as the specification states it
WheelFactor(button) == IF button = "up" THEN R(10, 11) ELSE R(11, 10)

\* C2: a cursor-anchored zoom multiplies width and height by the factor and
\* keeps the anchor's fractional position relX, relY; on (0,100,0,100) with
\* anchor (20,20) and factor 0.5 it yields x_min = 10, x_max = 60.
C2_AnchoredZoom ==
    /\ (Shown /\ Len(hist) >= 1 /\ IsZoomingScroll(Last)
           /\ PositiveExtent(Last.xlim, Last.ylim)) =>
          /\ Width(xlim) = Mul(Width(Last.xlim), WheelFactor(Last.key))
          /\ Width(ylim) = Mul(Width(Last.ylim), WheelFactor(Last.key))
          /\ Rel(xlim, Last.args[2]) = Rel(Last.xlim, Last.args[2])
          /\ Rel(ylim, Last.args[3]) = Rel(Last.ylim, Last.args[3])
    /\ LET v == scroll_limits(<<Num(0), Num(100)>>, <<Num(0), Num(100)>>,
                              Num(20), Num(20), R(1, 2))
       IN  v.xlim = <<Num(10), Num(60)>> /\ v.ylim = <<Num(10), Num(60)>>

C2_Witness ==
    /\ Shown /\ Len(hist) >= 1 /\ IsZoomingScroll(Last) /\ Last.key = "up"
    /\ Last.xlim = <<Num(0), Num(100)>> /\ Last.args[2] = Num(20)
    /\ Rel(xlim, Num(20)) = R(4, 5)
    /\ Width(xlim) = R(1000, 11)

\* C3: after any sequence of operations a reset makes the view equal to home,
\* and a second reset in a row changes nothing.
C3_Reset ==
    (Shown /\ Len(hist) >= 1 /\ IsResetKey(Last)) =>
        /\ xlim = x_limits /\ ylim = y_limits
        /\ (Len(hist) = 2 /\ IsResetKey(Before)) =>
               (xlim = Last.xlim /\ ylim = Last.ylim)

C3_Witness ==
    /\ Shown /\ steps = MaxSteps /\ Len(hist) = 2
    /\ IsResetKey(Last) /\ ~IsResetKey(Before)
    /\ Last.xlim # x_limits /\ Last.ylim # y_limits
    /\ Before.xlim # Last.xlim
    /\ xlim = x_limits /\ ylim = y_limits

\* C4: once the viewer is constructed no event writes x_limits or y_limits.
C4_HomeFixed ==
    [][Shown => (x_limits' = x_limits /\ y_limits' = y_limits)]_vars

C4_Witness ==
    /\ Shown /\ Len(hist) = 2
    /\ Last.x_limits = x_limits /\ Before.x_limits = x_limits
    /\ Last.y_limits = y_limits /\ Before.y_limits = y_limits
    /\ xlim # x_limits /\ ylim # y_limits
    /\ Last.ev = "key_press" /\ Before.ev = "scroll"

\* C5: zoom(factor) with factor <= 0 raises InvalidZoomError and leaves the
\* view and home as they were.
C5_RejectsBadFactor ==
    (Shown /\ Len(hist) >= 1 /\ Last.ev = "zoom" /\ Leq(Last.args[1], Zero)) =>
        /\ Last.raised = "InvalidZoomError"
        /\ xlim = Last.xlim /\ ylim = Last.ylim
        /\ x_limits = Last.x_limits /\ y_limits = Last.y_limits

\* C6: construction with a centre c and a zoom z > 0 makes home the window of
\* size fitted * z centred at c, shows it, and a later reset returns to it;
\* fitted 40000 x 30000 with c = (33950, 20000), z = 0.5 gives 20000 x 15000.
C6_OverrideIsHome ==
    (Shown /\ initial_center # None /\ Less(Zero, initial_zoom)) =>
        /\ Width(x_limits) = Mul(Width(fitted.x), initial_zoom)
        /\ Width(y_limits) = Mul(Width(fitted.y), initial_zoom)
        /\ Center(x_limits) = initial_center[1]
        /\ Center(y_limits) = initial_center[2]
        /\ Len(hist) = 0 => (xlim = x_limits /\ ylim = y_limits)
        /\ (Len(hist) >= 1 /\ IsResetKey(Last)) => (xlim = x_limits /\ ylim = y_limits)
        /\ (fitted.x = <<Num(10000), Num(50000)>> /\ initial_zoom = R(1, 2)) =>
               /\ x_limits = <<Num(23950), Num(43950)>>
               /\ y_limits = <<Num(12500), Num(27500)>>

C6_Witness ==
    /\ Shown /\ Len(hist) = 2
    /\ fitted.x = <<Num(10000), Num(50000)>>
    /\ initial_center = <<Num(33950), Num(20000)>> /\ initial_zoom = R(1, 2)
    /\ IsResetKey(Last) /\ Last.xlim # x_limits
    /\ xlim = <<Num(23950), Num(43950)>> /\ ylim = <<Num(12500), Num(27500)>>
    /\ xlim # fitted.x

\* C7: the '+' / '=' key strictly decreases the width and height of the view
\* (zooms in) and the '-' key strictly increases them (zooms out).
C7_PlusZoomsIn ==
    (Shown /\ Len(hist) >= 1 /\ Last.ev = "key_press") =>
        /\ Last.key \in {"+", "="} =>
               /\ Less(Width(xlim), Width(Last.xlim))
               /\ Less(Width(ylim), Width(Last.ylim))
        /\ Last.key = "-" =>
               /\ Less(Width(Last.xlim), Width(xlim))
               /\ Less(Width(Last.ylim), Width(ylim))

\* C8: on a view of positive extent, zoom(f) followed at once by zoom(1/f),
\* f > 0, restores the limits.
C8_ZoomRoundTrip ==
    (Shown /\ Len(hist) = 2 /\ Last.ev = "zoom" /\ Before.ev = "zoom"
        /\ Less(Zero, Before.args[1])
        /\ Last.args[1] = Div(One, Before.args[1])
        /\ PositiveExtent(Before.xlim, Before.ylim)) =>
        (xlim = Before.xlim /\ ylim = Before.ylim)

C8_Witness ==
    /\ Shown /\ Len(hist) = 2 /\ Last.ev = "zoom" /\ Before.ev = "zoom"
    /\ Before.args[1] = R(1, 2) /\ Last.args[1] = Two
    /\ PositiveExtent(Before.xlim, Before.ylim)
    /\ Last.xlim # Before.xlim
    /\ xlim = Before.xlim /\ ylim = Before.ylim

\* C9: zoom(factor), factor > 0, multiplies width and height by factor and
\* keeps the centre of the view.
C9_ZoomCentered ==
    (Shown /\ Len(hist) >= 1 /\ Last.ev = "zoom" /\ Less(Zero, Last.args[1])) =>
        /\ Width(xlim) = Mul(Width(Last.xlim), Last.args[1])
        /\ Width(ylim) = Mul(Width(Last.ylim), Last.args[1])
        /\ Center(xlim) = Center(Last.xlim)
        /\ Center(ylim) = Center(Last.ylim)

C9_Witness ==
    /\ Shown /\ Len(hist) >= 1 /\ Last.ev = "zoom" /\ Last.args[1] = R(1, 2)
    /\ Last.xlim = <<Num(23950), Num(43950)>>
    /\ xlim = <<Num(28950), Num(38950)>>
    /\ Center(ylim) = Num(20000)

\* C10: pan(dx, dy) adds dx * width to x_min and x_max and dy * height to
\* y_min and y_max, however large dx and dy; width and height are unchanged.
C10_Pan ==
    (Shown /\ Len(hist) >= 1 /\ Last.ev = "pan") =>
        LET dx == Last.args[1]
            dy == Last.args[2]
            w == Width(Last.xlim)
            h == Width(Last.ylim)
        IN  /\ xlim[1] = Add(Last.xlim[1], Mul(dx, w))
            /\ xlim[2] = Add(Last.xlim[2], Mul(dx, w))
            /\ ylim[1] = Add(Last.ylim[1], Mul(dy, h))
            /\ ylim[2] = Add(Last.ylim[2], Mul(dy, h))
            /\ Width(xlim) = w
            /\ Width(ylim) = h

C10_Witness ==
    /\ Shown /\ Len(hist) >= 1 /\ Last.ev = "pan"
    /\ Last.args = <<Num(-2), R(3, 2)>>
    /\ Last.xlim = <<Num(0), Num(100)>> /\ Last.ylim = <<Num(0), Num(100)>>
    /\ xlim = <<Num(-200), Num(-100)>> /\ ylim = <<Num(150), Num(250)>>

OppositeArrows(a, b) == {a, b} = {"left", "right"} \/ {a, b} = {"up", "down"}

\* C11: pan(dx, dy) followed at once by pan(-dx, -dy) restores the limits; the
\* arrow keys left/right and up/down undo each other.
C11_PanInverse ==
    (Shown /\ Len(hist) = 2) =>
        /\ (Last.ev = "pan" /\ Before.ev = "pan"
               /\ Last.args = <<Neg(Before.args[1]), Neg(Before.args[2])>>) =>
               (xlim = Before.xlim /\ ylim = Before.ylim)
        /\ (Last.ev = "key_press" /\ Before.ev = "key_press"
               /\ OppositeArrows(Last.key, Before.key)) =>
               (xlim = Before.xlim /\ ylim = Before.ylim)

C11_Witness ==
    /\ Shown /\ Len(hist) = 2 /\ Last.ev = "pan" /\ Before.ev = "pan"
    /\ Before.args = <<Num(-2), R(3, 2)>> /\ Last.args = <<Two, R(-3, 2)>>
    /\ Last.xlim # Before.xlim /\ Last.ylim # Before.ylim
    /\ xlim = Before.xlim /\ ylim = Before.ylim

\* C12: construction with a centre and a zoom <= 0 fails: no such viewer comes
\* to exist, and the view and home it starts with have positive extent.
C12_RejectsBadOverride ==
    (Shown /\ Len(hist) = 0) =>
        /\ initial_center # None => Less(Zero, initial_zoom)
        /\ PositiveExtent(xlim, ylim)
        /\ PositiveExtent(x_limits, y_limits)

\* the limits shifted by the fraction d of their extent
Shifted(lim, d) == <<Add(lim[1], Mul(d, Width(lim))), Add(lim[2], Mul(d, Width(lim)))>>

\* C13: a drag pans the view by the drag delta, taken as a fraction of the
\* width and height (in the direction of the drag or against it).
C13_DragPans ==
    (Shown /\ Len(hist) >= 1 /\ Last.ev = "drag") =>
        \/ /\ xlim = Shifted(Last.xlim, Last.args[1])
           /\ ylim = Shifted(Last.ylim, Last.args[2])
        \/ /\ xlim = Shifted(Last.xlim, Neg(Last.args[1]))
           /\ ylim = Shifted(Last.ylim, Neg(Last.args[2]))

\* C14: with no geometry at all (every layer empty or absent) no viewer state
\* comes to exist; with walls and slabs present the viewer is built whatever
\* the optional layers hold.
C14_NoGeometryFails ==
    /\ (pc # "new" /\ ~Drawn(layers)) =>
           (~Shown /\ x_limits = None /\ y_limits = None)
    /\ (pc # "new" /\ layers.wall_data = "rows" /\ layers.slab1_data = "rows") => Shown

BoundKeys == {"r", "R", "+", "=", "-", "up", "down", "left", "right"}
\* an input that reaches zoom, pan, reset_view or the zooming part of on_scroll
IsNavigation(e) ==
    \/ IsZoomingScroll(e)
    \/ e.ev = "key_press" /\ e.key \in BoundKeys

\* C15: every scroll zoom, keyboard zoom, pan and reset requests a redraw
\* before its handler returns, so the view never changes without one.
C15_RedrawRequested ==
    (Shown /\ Len(hist) >= 1) =>
        /\ IsNavigation(Last) => draw_requests = Last.draw_requests + 1
        /\ (xlim # Last.xlim \/ ylim # Last.ylim) => draw_requests > Last.draw_requests

C15_Witness ==
    /\ Shown /\ Len(hist) = 2
    /\ IsResetKey(Last) /\ IsZoomingScroll(Before)
    /\ xlim # Last.xlim /\ Last.xlim # Before.xlim
    /\ Before.draw_requests = 0 /\ Last.draw_requests = 1 /\ draw_requests = 2

\* C16: the view keeps the aspect ratio of home through every event:
\* width / height of the view equals width / height of home.
C16_AspectRatio ==
    Shown => Div(Width(xlim), Width(ylim)) = Div(Width(x_limits), Width(y_limits))

C16_Witness ==
    /\ Shown /\ Len(hist) = 2
    /\ Last.ev = "key_press" /\ Last.key = "+" /\ IsZoomingScroll(Before)
    /\ Width(xlim) # Width(x_limits) /\ Width(ylim) # Width(y_limits)
    /\ Div(Width(xlim), Width(ylim)) = R(4, 3)
    /\ Div(Width(x_limits), Width(y_limits)) = R(4, 3)

\* C17: a scroll outside the axes or without data coordinates, and a key
\* without a binding, leave the view and home as they were.
C17_IgnoredInput ==
    (Shown /\ Len(hist) >= 1 /\ Last.ev \in {"scroll", "key_press"} /\ ~IsNavigation(Last)) =>
        /\ xlim = Last.xlim /\ ylim = Last.ylim
        /\ x_limits = Last.x_limits /\ y_limits = Last.y_limits

C17_Witness ==
    /\ Shown /\ Len(hist) = 2
    /\ Last.ev = "key_press" /\ Last.key = "a"
    /\ Before.ev = "scroll" /\ ~Before.args[1]
    /\ xlim # x_limits
    /\ xlim = Before.xlim /\ ylim = Before.ylim

\* C18: a scroll up followed at once by a scroll down at the same cursor
\* position, or down followed by up, restores the limits.
C18_ScrollRoundTrip ==
    (Shown /\ Len(hist) = 2 /\ IsZoomingScroll(Last) /\ IsZoomingScroll(Before)
        /\ Last.args = Before.args /\ {Last.key, Before.key} = {"up", "down"}) =>
        (xlim = Before.xlim /\ ylim = Before.ylim)

C18_Witness ==
    /\ Shown /\ Len(hist) = 2 /\ IsZoomingScroll(Last) /\ IsZoomingScroll(Before)
    /\ Last.args = Before.args /\ Before.key = "up" /\ Last.key = "down"
    /\ Last.args[2] = Num(20)
    /\ Before.xlim = <<Num(0), Num(100)>>
    /\ Last.xlim = <<R(20, 11), R(1020, 11)>>
    /\ xlim = <<Num(0), Num(100)>> /\ ylim = Before.ylim

====
